---- MODULE Spec2Model ----
(***************************************************************************)
(* go-treemux: the segmented wildcard trie (wildcardTrie) and the router   *)
(* facade (treeMux) built on it.                                           *)
(*                                                                         *)
(* A Go string is modelled as a sequence of one-character strings, so that *)
(* strings.Split and strings.Join are computed and not assumed.  A trie    *)
(* node is a record with the fields of struct wildcardTrie; the children   *)
(* slice is a sequence of such records.  Slice indices of the source are   *)
(* zero-based: xs[idx] of the source is xs[idx + 1] here.                  *)
(***************************************************************************)
EXTENDS Integers, Sequences, FiniteSets, TLC

VARIABLES trie, prev, added, op

vars == <<trie, prev, added, op>>

(***************************************************************************)
(* Bounds of the model.  A pattern or a path is a string of at most        *)
(* MaxSegs segments joined by "/", each segment empty, the literal a or    *)
(* the wildcard; a leading or trailing "/" is a first or last segment that *)
(* is empty.  The strings of the wildcard scenario are all the strings of  *)
(* at most MaxLenWild characters over AlphabetWild.  The deep strings have *)
(* at most MaxSegsDeep segments, so that an empty segment can stand        *)
(* between two others.                                                     *)
(***************************************************************************)
MaxSegs == 2

MaxAdds == 2

MaxAddsFirst == 3

MaxLenWild == 6

MaxSegsDeep == 3

MaxAddsDeep == 1

Segments == {<<>>, <<"a">>, <<"*">>}

AlphabetWild == {"/", "a", "b", "*"}

RECURSIVE StringsOfLen(_, _)
StringsOfLen(chars, n) ==
    IF n = 0 THEN {<<>>}
    ELSE {<<c>> \o s : c \in chars, s \in StringsOfLen(chars, n - 1)}

StringsUpTo(chars, n) == UNION {StringsOfLen(chars, k) : k \in 0..n}

RECURSIVE StringsOfSegs(_)
StringsOfSegs(n) ==
    IF n = 1 THEN Segments
    ELSE {x \o <<"/">> \o s : x \in Segments, s \in StringsOfSegs(n - 1)}

Strings == UNION {StringsOfSegs(n) : n \in 1..MaxSegs}

StringsDeep == UNION {StringsOfSegs(n) : n \in 1..MaxSegsDeep}

Min(S) == CHOOSE x \in S : \A y \in S : x <= y

(***************************************************************************)
(* The nil interface value: a node without a bound value.                  *)
(***************************************************************************)
Nil == 0

wildcard == <<"*">>

(***************************************************************************)
(* strings.Split(s, sep) for a one-character separator: one more element   *)
(* than there are separators in s, empty elements kept.                    *)
(***************************************************************************)
RECURSIVE Split(_, _)
Split(s, sep) ==
    IF s = <<>> THEN << <<>> >>
    ELSE LET rest == Split(Tail(s), sep) IN
         IF Head(s) = sep
         THEN << <<>> >> \o rest
         ELSE << <<Head(s)>> \o Head(rest) >> \o Tail(rest)

(***************************************************************************)
(* strings.Join(xs, sep).                                                  *)
(***************************************************************************)
RECURSIVE Join(_, _)
Join(xs, sep) ==
    IF xs = <<>> THEN <<>>
    ELSE IF Len(xs) = 1 THEN xs[1]
    ELSE xs[1] \o <<sep>> \o Join(Tail(xs), sep)

newWildcardTrie(separator) ==
    [separator |-> separator, key |-> <<>>, pattern |-> <<>>,
     value |-> Nil, children |-> <<>>]

newTrie(sep, key, path) ==
    [separator |-> sep, key |-> key, pattern |-> <<"/">> \o Join(path, sep),
     value |-> Nil, children |-> <<>>]

(***************************************************************************)
(* wildcardTrie.grow: the node t after grow(idx, xs, v).                   *)
(***************************************************************************)
RECURSIVE grow(_, _, _, _)
(* grow without the search for an existing child: every call appends. *)
growAlwaysAppends(t, idx, xs, v) ==
    IF Len(xs) = idx THEN [t EXCEPT !.value = v]
    ELSE LET c == newTrie(t.separator, xs[idx + 1], SubSeq(xs, 1, idx + 1))
             grown == IF Len(xs) = idx + 1
                      THEN [c EXCEPT !.value = v]
                      ELSE grow(c, idx + 1, xs, v)
         IN [t EXCEPT !.children = Append(@, grown)]

(* grow that puts a new child in front of the existing children. *)
growPrepends(t, idx, xs, v) ==
    IF Len(xs) = idx THEN [t EXCEPT !.value = v]
    ELSE LET hits == {i \in 1..Len(t.children) : t.children[i].key = xs[idx + 1]} IN
         IF hits # {}
         THEN [t EXCEPT !.children[Min(hits)] = grow(@, idx + 1, xs, v)]
         ELSE LET c == newTrie(t.separator, xs[idx + 1], SubSeq(xs, 1, idx + 1))
                  grown == IF Len(xs) = idx + 1
                           THEN [c EXCEPT !.value = v]
                           ELSE grow(c, idx + 1, xs, v)
              IN [t EXCEPT !.children = <<grown>> \o @]

grow(t, idx, xs, v) ==
    IF Len(xs) = idx THEN [t EXCEPT !.value = v]
    ELSE LET hits == {i \in 1..Len(t.children) : t.children[i].key = xs[idx + 1]} IN
         IF hits # {}
         THEN [t EXCEPT !.children[Min(hits)] = grow(@, idx + 1, xs, v)]
         ELSE IF Len(xs) > idx
         THEN LET c == newTrie(t.separator, xs[idx + 1], SubSeq(xs, 1, idx + 1))
                  grown == IF Len(xs) = idx + 1
                           THEN [c EXCEPT !.value = v]
                           ELSE grow(c, idx + 1, xs, v)
              IN [t EXCEPT !.children = Append(@, grown)]
         ELSE t

(***************************************************************************)
(* wildcardTrie.Add: the panic test, and the trie Add leaves behind (the   *)
(* panic precedes grow, so a panicking Add leaves t as it was).            *)
(***************************************************************************)
(* The panic test with len(xs) > 2 for len(xs) > 1. *)
AddPanicsOffByOne(t, s) ==
    LET xs == Split(s, t.separator) IN
    Len(xs) > 2 /\ xs[Len(xs)] = <<>>

(* Add without the panic test. *)
AddPanicsNever(t, s) == FALSE

AddPanics(t, s) ==
    LET xs == Split(s, t.separator) IN
    Len(xs) > 1 /\ xs[Len(xs)] = <<>>

(* Add that does not skip the empty first element. *)
AddTrieNoSkip(t, s, v) ==
    LET xs == Split(s, t.separator) IN
    IF AddPanics(t, s) THEN t ELSE grow(t, 0, xs, v)

AddTrie(t, s, v) ==
    LET xs  == Split(s, t.separator)
        idx == IF xs[1] = <<>> THEN 1 ELSE 0
    IN IF AddPanics(t, s) THEN t ELSE grow(t, idx, xs, v)

NoMatch == [value |-> Nil, pattern |-> <<>>]

(***************************************************************************)
(* wildcardTrie.get, and its loop over the children (first child whose     *)
(* result has a non-empty pattern).                                        *)
(***************************************************************************)
RECURSIVE get(_, _, _, _)
RECURSIVE getChildren(_, _, _, _, _)
RECURSIVE getChildrenFirstFit(_, _, _, _, _)
(* get with a wildcard node that swallows the rest of the path. *)
getWildcardSwallows(t, idx, xs, wc) ==
    IF xs[idx + 1] # t.key /\ t.key # wc
    THEN IF t.key = <<>> /\ Len(t.children) = 0
         THEN [value |-> t.value, pattern |-> t.pattern]
         ELSE NoMatch
    ELSE IF Len(xs) - idx = 1 \/ t.key = wc
    THEN [value |-> t.value, pattern |-> t.pattern]
    ELSE getChildren(t.children, 1, idx + 1, xs, wc)

(* get with partial wildcards: a key that ends with the wildcard character *)
(* matches every element that starts with the rest of the key.             *)
PartialMatch(key, x) ==
    /\ Len(key) >= 1
    /\ key[Len(key)] = "*"
    /\ Len(x) >= Len(key) - 1
    /\ SubSeq(x, 1, Len(key) - 1) = SubSeq(key, 1, Len(key) - 1)

getPartialWildcard(t, idx, xs, wc) ==
    IF xs[idx + 1] # t.key /\ t.key # wc /\ ~PartialMatch(t.key, xs[idx + 1])
    THEN IF t.key = <<>> /\ Len(t.children) = 0
         THEN [value |-> t.value, pattern |-> t.pattern]
         ELSE NoMatch
    ELSE IF Len(xs) - idx = 1
    THEN [value |-> t.value, pattern |-> t.pattern]
    ELSE getChildren(t.children, 1, idx + 1, xs, wc)

get(t, idx, xs, wc) ==
    IF xs[idx + 1] # t.key /\ t.key # wc
    THEN IF t.key = <<>> /\ Len(t.children) = 0
         THEN [value |-> t.value, pattern |-> t.pattern]
         ELSE NoMatch
    ELSE IF Len(xs) - idx = 1
    THEN [value |-> t.value, pattern |-> t.pattern]
    ELSE getChildren(t.children, 1, idx + 1, xs, wc)

(* The loop over the children that commits to the first child whose key    *)
(* fits the element, whatever that child's branch returns.                 *)
getChildrenFirstFit(cs, i, idx, xs, wc) ==
    IF i > Len(cs) THEN NoMatch
    ELSE IF cs[i].key = xs[idx + 1] \/ cs[i].key = wc
    THEN get(cs[i], idx, xs, wc)
    ELSE getChildrenFirstFit(cs, i + 1, idx, xs, wc)

getChildren(cs, i, idx, xs, wc) ==
    IF i > Len(cs) THEN NoMatch
    ELSE LET r == get(cs[i], idx, xs, wc) IN
         IF r.pattern # <<>> THEN r
         ELSE getChildren(cs, i + 1, idx, xs, wc)

(***************************************************************************)
(* Whether the walk of get returns through its branch for a node with an   *)
(* empty key and no children whose key does not fit the element.           *)
(***************************************************************************)
RECURSIVE getFallback(_, _, _, _)
RECURSIVE getChildrenFallback(_, _, _, _, _)
getFallback(t, idx, xs, wc) ==
    IF xs[idx + 1] # t.key /\ t.key # wc
    THEN t.key = <<>> /\ Len(t.children) = 0
    ELSE IF Len(xs) - idx = 1 THEN FALSE
    ELSE getChildrenFallback(t.children, 1, idx + 1, xs, wc)

getChildrenFallback(cs, i, idx, xs, wc) ==
    IF i > Len(cs) THEN FALSE
    ELSE \/ getFallback(cs[i], idx, xs, wc)
         \/ /\ get(cs[i], idx, xs, wc).pattern = <<>>
            /\ getChildrenFallback(cs, i + 1, idx, xs, wc)

GetFallback(t, s) ==
    LET xs == Split(s, t.separator) IN
    IF xs[1] = <<>> THEN getFallback(t, 0, xs, wildcard)
    ELSE getChildrenFallback(t.children, 1, 0, xs, wildcard)

(***************************************************************************)
(* wildcardTrie.Get.                                                       *)
(***************************************************************************)
(* Get that falls through to the root's own value when no child matches. *)
GetResultRootFallthrough(t, s) ==
    LET xs == Split(s, t.separator)
        r  == IF xs[1] = <<>> THEN get(t, 0, xs, wildcard)
              ELSE getChildren(t.children, 1, 0, xs, wildcard)
    IN IF r.pattern = <<>> THEN [value |-> t.value, pattern |-> <<>>] ELSE r

(* Get without the branch for a leading separator. *)
GetResultNoLeadingBranch(t, s) ==
    LET xs == Split(s, t.separator) IN
    getChildren(t.children, 1, 0, xs, wildcard)

(* Get that resolves the path that is only the separator against the root. *)
GetResultSeparatorIsRoot(t, s) ==
    LET xs == Split(s, t.separator) IN
    IF s = <<t.separator>> THEN [value |-> t.value, pattern |-> t.pattern]
    ELSE IF xs[1] = <<>> THEN get(t, 0, xs, wildcard)
    ELSE getChildren(t.children, 1, 0, xs, wildcard)

GetResult(t, s) ==
    LET xs == Split(s, t.separator) IN
    IF xs[1] = <<>> THEN get(t, 0, xs, wildcard)
    ELSE getChildren(t.children, 1, 0, xs, wildcard)

(***************************************************************************)
(* wildcardTrie.equals.                                                    *)
(***************************************************************************)
RECURSIVE equals(_, _)
equals(t, other) ==
    /\ t.separator = other.separator
    /\ t.key = other.key
    /\ t.pattern = other.pattern
    /\ t.value = other.value
    /\ Len(t.children) = Len(other.children)
    /\ \A i \in 1..Len(t.children) : equals(t.children[i], other.children[i])

(***************************************************************************)
(* treeMux.Handler: the handler selected for a request path.  The type     *)
(* assertion v.(http.Handler) panics on a nil interface value.             *)
(***************************************************************************)
HandlerResult(t, path) ==
    LET r == GetResult(t, path) IN
    IF r.pattern = <<>> THEN [h |-> "notFound", value |-> Nil, pattern |-> r.pattern]
    ELSE IF r.value = Nil THEN [h |-> "panic", value |-> Nil, pattern |-> <<>>]
    ELSE [h |-> "handler", value |-> r.value, pattern |-> path]

(***************************************************************************)
(* State: trie is the trie of the multiplexer (NewTreeMux builds it with   *)
(* separator "/"); prev is the trie before the last operation; added is    *)
(* the list of the Add calls that returned; op is the last operation with  *)
(* its arguments and what it returned.                                     *)
(***************************************************************************)
NoOp ==
    [name |-> "none", s |-> <<>>, v |-> Nil, panic |-> FALSE,
     value |-> Nil, pattern |-> <<>>, h |-> "none"]

Init ==
    /\ trie = newWildcardTrie("/")
    /\ prev = newWildcardTrie("/")
    /\ added = <<>>
    /\ op = NoOp

(***************************************************************************)
(* wildcardTrie.Add.                                                       *)
(***************************************************************************)
Add(s, v) ==
    /\ prev' = trie
    /\ trie' = AddTrie(trie, s, v)
    /\ added' = IF AddPanics(trie, s) THEN added
                ELSE Append(added, [s |-> s, v |-> v])
    /\ op' = [NoOp EXCEPT !.name = "Add", !.s = s, !.v = v,
                          !.panic = AddPanics(trie, s)]

(***************************************************************************)
(* treeMux.Handle (HandleFunc wraps the function and calls Handle).        *)
(***************************************************************************)
Handle(path, handler) == Add(path, handler)

Get(s) ==
    /\ prev' = trie
    /\ op' = [NoOp EXCEPT !.name = "Get", !.s = s,
                          !.value = GetResult(trie, s).value,
                          !.pattern = GetResult(trie, s).pattern]
    /\ UNCHANGED <<trie, added>>

Handler(path) ==
    /\ prev' = trie
    /\ LET r == HandlerResult(trie, path) IN
       op' = [NoOp EXCEPT !.name = "Handler", !.s = path, !.h = r.h,
                          !.panic = (r.h = "panic"),
                          !.value = r.value, !.pattern = r.pattern]
    /\ UNCHANGED <<trie, added>>

(***************************************************************************)
(* The caller.  A panic ends the run.  Get and Handler leave the trie as   *)
(* it is, so a call after a lookup reaches no trie and no result that a    *)
(* call in its place does not reach: a run is a sequence of Add calls      *)
(* followed by one lookup.  Values are opaque to the trie: the i-th Add    *)
(* that returns binds the value i.                                         *)
(***************************************************************************)
Building == ~op.panic /\ op.name \in {"none", "Add"}

Next ==
    \/ Building /\ Len(added) < MaxAdds
          /\ \E s \in Strings : Add(s, Len(added) + 1)
    \/ Building /\ \E s \in Strings : Get(s)

Spec == Init /\ [][Next]_vars

(***************************************************************************)
(* The multiplexer: routes registered with Handle, then one request.       *)
(***************************************************************************)
NextMux ==
    \/ Building /\ Len(added) < MaxAdds
          /\ \E path \in Strings : Handle(path, Len(added) + 1)
    \/ Building /\ \E path \in Strings : Handler(path)

SpecMux == Init /\ [][NextMux]_vars

(***************************************************************************)
(* Registration order: up to MaxAddsFirst Add calls, then one Get.         *)
(***************************************************************************)
NextFirst ==
    \/ Building /\ Len(added) < MaxAddsFirst
          /\ \E s \in Strings : Add(s, Len(added) + 1)
    \/ Building /\ \E s \in Strings : Get(s)

SpecFirst == Init /\ [][NextFirst]_vars

(***************************************************************************)
(* The wildcard scenario of TestWildcardTrie_Get: "/foo/bar" bound to 3,   *)
(* then "/foo/*" bound to 99 (foo is written a, bar is written b), then    *)
(* one Get of any path over AlphabetWild.                                  *)
(***************************************************************************)
FooBar == <<"/", "a", "/", "b">>

FooWild == <<"/", "a", "/", "*">>

StringsWild == StringsUpTo(AlphabetWild, MaxLenWild)

NextWild ==
    \/ Building /\ Len(added) = 0 /\ Add(FooBar, 3)
    \/ Building /\ Len(added) = 1 /\ Add(FooWild, 99)
    \/ Building /\ \E s \in StringsWild : Get(s)

SpecWild == Init /\ [][NextWild]_vars

(***************************************************************************)
(* Partial wildcards: the segment "foo*" of TestWildcardTrie_Get's case    *)
(* "unsupported partial wildcard" bound to 42, then the route "/foo*/bar"  *)
(* of the README bound to 43 (foo is written a, bar is written b), then    *)
(* one Get of any path over AlphabetWild.                                  *)
(***************************************************************************)
FooStar == <<"a", "*">>

FooStarBar == <<"/", "a", "*", "/", "b">>

NextPartial ==
    \/ Building /\ Len(added) = 0 /\ Add(FooStar, 42)
    \/ Building /\ Len(added) = 1 /\ Add(FooStarBar, 43)
    \/ Building /\ Len(added) >= 1 /\ \E s \in StringsWild : Get(s)

SpecPartial == Init /\ [][NextPartial]_vars

(***************************************************************************)
(* Deep patterns and paths: up to MaxAddsDeep Add calls and one Get, over  *)
(* the strings of at most MaxSegsDeep segments.                            *)
(***************************************************************************)
NextDeep ==
    \/ Building /\ Len(added) < MaxAddsDeep
          /\ \E s \in StringsDeep : Add(s, Len(added) + 1)
    \/ Building /\ \E s \in StringsDeep : Get(s)

SpecDeep == Init /\ [][NextDeep]_vars

(***************************************************************************)
(* Vocabulary of the properties.                                           *)
(***************************************************************************)
Sep == "/"

Last(s) == s[Len(s)]

(* The segments of a pattern or path, a leading separator dropped. *)
Segs(s) ==
    LET xs == Split(s, Sep) IN
    IF xs[1] = <<>> THEN Tail(xs) ELSE xs

(* Pattern p matches path q: as many segments, each equal or the wildcard. *)
Matches(p, q) ==
    /\ Len(Segs(p)) = Len(Segs(q))
    /\ \A i \in 1..Len(Segs(p)) : Segs(p)[i] = Segs(q)[i] \/ Segs(p)[i] = wildcard

(* No empty segment: the patterns and paths of ordinary use. *)
Plain(s) == Segs(s) # <<>> /\ \A i \in 1..Len(Segs(s)) : Segs(s)[i] # <<>>

AllAddedPlain == \A i \in 1..Len(added) : Plain(added[i].s)

(* The nodes of a trie: each with its position (the child indices from the *)
(* root), the segments on the way from the root, its fields and the number *)
(* of its children.  The root has the empty position.                      *)
RECURSIVE NodesAt(_, _, _)
NodesAt(t, pos, keys) ==
    {[pos |-> pos, keys |-> keys, key |-> t.key, pattern |-> t.pattern,
      value |-> t.value, n |-> Len(t.children)]}
    \cup UNION {NodesAt(t.children[i], Append(pos, i), Append(keys, t.children[i].key)) :
                   i \in 1..Len(t.children)}

NodeSet(t) == NodesAt(t, <<>>, <<>>)

(***************************************************************************)
(* C1: a Get whose walk ends on a node that has no value reports no match: *)
(* an absent value comes with an empty matched pattern.  Stated for the    *)
(* patterns and paths that have no empty segment.                          *)
(***************************************************************************)
C1_ValuelessNodeIsNoMatch ==
    (op.name = "Get" /\ AllAddedPlain /\ Plain(op.s) /\ op.value = Nil)
        => op.pattern = <<>>

(***************************************************************************)
(* C2: Add(p, v) and Add(separator + p, v), applied to the same trie, give *)
(* equal tries, for every p that has no leading separator.                 *)
(***************************************************************************)
C2_LeadingSeparatorAddEqual ==
    (op.name = "Add" /\ ~op.panic /\ op.s # <<>> /\ Head(op.s) # Sep)
        => equals(trie, AddTrie(prev, <<Sep>> \o op.s, op.v))

(***************************************************************************)
(* C3: after Add(p, v1) and Add(p, v2), Get(p) returns (v2, p).  Stated    *)
(* for the patterns p that are written with their leading separator and    *)
(* have no empty segment.                                                  *)
(***************************************************************************)
C3_OverwriteThenGet ==
    (/\ op.name = "Get"
     /\ Len(added) = 2
     /\ added[1].s = op.s
     /\ added[2].s = op.s
     /\ added[1].v # added[2].v
     /\ Plain(op.s)
     /\ Head(op.s) = Sep)
        => (op.value = added[2].v /\ op.pattern = op.s)

(***************************************************************************)
(* C4: when the path of a Get matches two registered patterns, Get returns *)
(* the value bound to the one that was added first.  Stated for the        *)
(* patterns and paths that have no empty segment.                          *)
(***************************************************************************)
MatchingAdds == {i \in 1..Len(added) : Matches(added[i].s, op.s)}

ValueNowOf(p) ==
    added[CHOOSE i \in 1..Len(added) :
              /\ Segs(added[i].s) = Segs(p)
              /\ \A j \in 1..Len(added) : Segs(added[j].s) = Segs(p) => j <= i].v

C4_FirstRegisteredWins ==
    (/\ op.name = "Get"
     /\ AllAddedPlain
     /\ Plain(op.s)
     /\ \E i, j \in MatchingAdds : Segs(added[i].s) # Segs(added[j].s))
        => op.value = ValueNowOf(added[Min(MatchingAdds)].s)

(***************************************************************************)
(* C5, as claimed: a Get that returns the empty pattern returns no value.  *)
(***************************************************************************)
C5_EmptyPatternNoValue ==
    (op.name = "Get" /\ op.pattern = <<>>) => op.value = Nil

(***************************************************************************)
(* C5, amended: a Get of a non-empty path that returns the empty pattern   *)
(* returns no value (Get of the empty path returns the root's own value    *)
(* with the root's empty pattern).                                         *)
(***************************************************************************)
C5_EmptyPatternNoValueUnlessEmptyPath ==
    (op.name = "Get" /\ op.pattern = <<>> /\ op.s # <<>>) => op.value = Nil

C5_Witness ==
    /\ op.name = "Get"
    /\ op.s = <<"/">>
    /\ op.pattern = <<>>
    /\ trie.value # Nil
    /\ Len(trie.children) > 0

(***************************************************************************)
(* C6: a request path that matches none of the registered patterns gets    *)
(* the notFound handler, and Handler does not panic.  Stated for the       *)
(* patterns and paths that have no empty segment.                          *)
(***************************************************************************)
C6_UnmatchedPathNotFound ==
    (/\ op.name = "Handler"
     /\ AllAddedPlain
     /\ Plain(op.s)
     /\ \A i \in 1..Len(added) : ~Matches(added[i].s, op.s))
        => (op.h = "notFound" /\ ~op.panic)

(***************************************************************************)
(* C7: Add of a pattern that ends with the separator panics and leaves the *)
(* trie equal to the trie before the call.                                 *)
(***************************************************************************)
C7_TrailingSeparatorRejected ==
    (op.name = "Add" /\ op.s # <<>> /\ Last(op.s) = Sep)
        => (op.panic /\ equals(trie, prev))

C7_Witness ==
    /\ op.name = "Add"
    /\ op.s = <<"/">>
    /\ op.panic
    /\ Len(prev.children) > 0
    /\ equals(trie, prev)

(***************************************************************************)
(* C8: with "/foo/bar" bound to 3 and then "/foo/*" bound to 99, the path  *)
(* foo/bar gets 3, foo/x gets 99 from the wildcard node for every single   *)
(* segment x other than bar, and a path of more than two segments gets no  *)
(* match.                                                                  *)
(***************************************************************************)
C8_WildcardOneSegment ==
    (op.name = "Get" /\ Len(added) = 2) =>
        LET qs == Segs(op.s) IN
        /\ qs = << <<"a">>, <<"b">> >> => op.value = 3
        /\ (Len(qs) = 2 /\ qs[1] = <<"a">> /\ qs[2] # <<"b">>)
              => (/\ op.value = 99
                  /\ op.pattern = trie.children[1].children[2].pattern
                  /\ trie.children[1].children[2].key = wildcard)
        /\ Len(qs) > 2 => (op.value = Nil /\ op.pattern = <<>>)

C8_Witness ==
    /\ op.name = "Get"
    /\ Len(added) = 2
    /\ op.s = <<"/", "a", "/", "b", "/", "a">>
    /\ op.pattern = <<>>

(***************************************************************************)
(* C9: Get(q) and Get(separator + q) return the same value and pattern,    *)
(* for every non-empty path q that has no leading separator.               *)
(***************************************************************************)
C9_LeadingSeparatorGetEqual ==
    (op.name = "Get" /\ op.s # <<>> /\ Head(op.s) # Sep)
        => GetResult(trie, <<Sep>> \o op.s) =
               [value |-> op.value, pattern |-> op.pattern]

C9_Witness ==
    /\ op.name = "Get"
    /\ op.s = <<"a", "/", "*">>
    /\ op.value # Nil
    /\ Len(added) = 2

(***************************************************************************)
(* C10: Add(p, v) applied twice gives a trie equal to Add(p, v) applied    *)
(* once.                                                                   *)
(***************************************************************************)
C10_AddIdempotent ==
    (op.name = "Add" /\ ~op.panic) => equals(AddTrie(trie, op.s, op.v), trie)

C10_Witness ==
    /\ op.name = "Add"
    /\ ~op.panic
    /\ Len(added) = 2
    /\ Len(trie.children) = 1
    /\ Len(trie.children[1].children) = 2
    /\ equals(AddTrie(trie, op.s, op.v), trie)

(***************************************************************************)
(* C11, as claimed: Get("") and Get(separator) both return the root's own  *)
(* value, and both report no match when the root has no value.             *)
(***************************************************************************)
C11_EmptyPathsResolveToRoot ==
    (op.name = "Get" /\ op.s \in {<<>>, <<Sep>>})
        => (/\ op.value = trie.value
            /\ trie.value = Nil => op.pattern = <<>>)

(***************************************************************************)
(* C11, amended: Get("") returns the root's value with the empty pattern;  *)
(* Get(separator) looks the empty segment up among the root's children and *)
(* returns the first child whose segment is empty or the wildcard, and no  *)
(* match when there is none, whatever the root's value.                    *)
(***************************************************************************)
RootChildrenForEmpty ==
    {i \in 1..Len(trie.children) : trie.children[i].key \in {<<>>, wildcard}}

C11_EmptyPathRootSeparatorChildren ==
    /\ (op.name = "Get" /\ op.s = <<>>)
          => (op.value = trie.value /\ op.pattern = <<>>)
    /\ (op.name = "Get" /\ op.s = <<Sep>>)
          => IF RootChildrenForEmpty = {}
             THEN op.value = Nil /\ op.pattern = <<>>
             ELSE /\ op.value = trie.children[Min(RootChildrenForEmpty)].value
                  /\ op.pattern = trie.children[Min(RootChildrenForEmpty)].pattern

C11_Witness ==
    /\ op.name = "Get"
    /\ op.s = <<Sep>>
    /\ trie.value # Nil
    /\ op.pattern # <<>>
    /\ op.value # trie.value

(***************************************************************************)
(* C12: the registered segment "foo*" is matched by the request segment    *)
(* "foo*" and by no other: a Get that matches has "foo*" as its first      *)
(* segment, and returns 42 for the path "foo*" and 43 for "foo*/bar".      *)
(***************************************************************************)
C12_NoPartialWildcard ==
    op.name = "Get" =>
        LET qs == Segs(op.s) IN
        /\ op.pattern # <<>> => (qs # <<>> /\ qs[1] = FooStar)
        /\ qs = <<FooStar>> => op.value = 42
        /\ (qs = <<FooStar, <<"b">> >> /\ Len(added) = 2) => op.value = 43

C12_Witness ==
    /\ op.name = "Get"
    /\ Len(added) = 2
    /\ op.s = <<"a", "b", "/", "b">>
    /\ op.value = Nil
    /\ op.pattern = <<>>

(***************************************************************************)
(* C13: after any sequence of Add calls, the pattern of every node but the *)
(* root is the separator followed by the segments from the root down to    *)
(* the node, joined by the separator.                                      *)
(***************************************************************************)
C13_FullPatternOfSegments ==
    \A n \in NodeSet(trie) :
        n.pos # <<>> => n.pattern = <<Sep>> \o Join(n.keys, Sep)

(***************************************************************************)
(* C14, as claimed: after any sequence of Add calls the root has an empty  *)
(* segment and no value.                                                   *)
(***************************************************************************)
C14_RootHasNoValue == trie.key = <<>> /\ trie.value = Nil

(***************************************************************************)
(* C14, amended: after any sequence of Add calls the root has an empty     *)
(* segment and an empty pattern, and its value is the value of the last    *)
(* Add of the empty pattern, absent when there was none.                   *)
(***************************************************************************)
EmptyAdds == {i \in 1..Len(added) : added[i].s = <<>>}

C14_RootValueFromEmptyPattern ==
    /\ trie.key = <<>>
    /\ trie.pattern = <<>>
    /\ trie.value = IF EmptyAdds = {} THEN Nil
                    ELSE added[CHOOSE i \in EmptyAdds : \A j \in EmptyAdds : j <= i].v

C14_Witness ==
    /\ op.name = "Add"
    /\ op.s = <<>>
    /\ Len(added) = 2
    /\ trie.value = 2
    /\ Len(trie.children) = 1

(***************************************************************************)
(* C15: an Add(p, v) that returns keeps every node that existed before at  *)
(* its position, with its segment and its pattern and with at least the    *)
(* children it had (so new children come after the existing ones); the     *)
(* terminal node of p, when it existed, keeps its children and gets the    *)
(* value v; every other node keeps its value; at most one value changes.   *)
(***************************************************************************)
C15_AppendOnlyFrame ==
    (op.name = "Add" /\ ~op.panic) =>
        LET old == NodeSet(prev)
            new == NodeSet(trie)
            changed == {o \in old : \E n \in new : n.pos = o.pos /\ n.value # o.value}
        IN /\ \A o \in old : \E n \in new :
                 /\ n.pos = o.pos
                 /\ n.key = o.key
                 /\ n.pattern = o.pattern
                 /\ n.n >= o.n
                 /\ o.keys = Segs(op.s) => (n.n = o.n /\ n.value = op.v)
                 /\ o.keys # Segs(op.s) => n.value = o.value
           /\ Cardinality(changed) <= 1

C15_Witness ==
    /\ op.name = "Add"
    /\ ~op.panic
    /\ op.s = <<"a">>
    /\ Len(added) = 2
    /\ Len(prev.children) = 1
    /\ prev.children[1].value = Nil
    /\ Len(prev.children[1].children) = 1
    /\ trie.children[1].value = 2
    /\ trie.children[1].children = prev.children[1].children

(***************************************************************************)
(* The nodes of the trie that fit the path of the last Get: as deep as the *)
(* path has segments, each segment on the way equal to the path's segment  *)
(* or the wildcard.  The first of them in depth-first, child-list order is *)
(* the one whose position is the least in the lexicographic order.         *)
(***************************************************************************)
FitsPath(keys, qs) ==
    /\ Len(keys) = Len(qs)
    /\ \A i \in 1..Len(qs) : keys[i] = qs[i] \/ keys[i] = wildcard

FittingNodes == {n \in NodeSet(trie) : FitsPath(n.keys, Segs(op.s))}

PosBefore(p, q) ==
    \E k \in 1..Len(p) :
        /\ p[k] < q[k]
        /\ \A j \in 1..(k - 1) : p[j] = q[j]

FirstFitting ==
    CHOOSE n \in FittingNodes :
        \A m \in FittingNodes : m.pos = n.pos \/ PosBefore(n.pos, m.pos)

(***************************************************************************)
(* C16, as claimed: for every path, when some node fits the path, Get      *)
(* returns a non-empty pattern, and it returns the first fitting node in   *)
(* depth-first, child-list order.                                          *)
(***************************************************************************)
C16_FittingNodeIsFound ==
    (op.name = "Get" /\ FittingNodes # {})
        => (/\ op.pattern # <<>>
            /\ op.pattern = FirstFitting.pattern
            /\ op.value = FirstFitting.value)

(***************************************************************************)
(* C16, amended: the same for every path but the empty one (the empty path *)
(* is answered by the root, whose pattern is empty).                       *)
(***************************************************************************)
C16_FittingNodeIsFoundNonEmptyPath ==
    (op.name = "Get" /\ op.s # <<>> /\ FittingNodes # {})
        => (/\ op.pattern # <<>>
            /\ op.pattern = FirstFitting.pattern
            /\ op.value = FirstFitting.value)

C16_Witness ==
    /\ op.name = "Get"
    /\ Len(added) = 2
    /\ added[1].s = <<"*", "/", "a">>
    /\ added[2].s = <<"a", "/", "*">>
    /\ op.s = <<"a", "/", "*">>
    /\ op.value = 2
    /\ FirstFitting.pos = <<2, 1>>

(***************************************************************************)
(* C17: in every trie built by Add calls no node but the root has an empty *)
(* segment and no children; the walk of a Get never returns through the    *)
(* branch for such a node; and a non-empty pattern returned by Get is the  *)
(* pattern of a node that is as deep as the path has segments and whose    *)
(* segments on the way fit the path's segments, each equal or the          *)
(* wildcard.                                                               *)
(***************************************************************************)
C17_NoEmptyLeafSoundGet ==
    /\ \A n \in NodeSet(trie) : n.pos # <<>> => ~(n.key = <<>> /\ n.n = 0)
    /\ op.name = "Get" =>
          /\ ~GetFallback(trie, op.s)
          /\ op.pattern # <<>> =>
                \E n \in FittingNodes :
                    n.pos # <<>> /\ n.pattern = op.pattern /\ n.value = op.value

C17_Witness ==
    /\ op.name = "Get"
    /\ Len(added) = 1
    /\ added[1].s = <<"a", "/", "/", "a">>
    /\ op.s = <<"a", "/", "a", "/", "a">>
    /\ op.value = Nil
    /\ op.pattern = <<>>
    /\ \E n \in NodeSet(trie) : n.pos # <<>> /\ n.key = <<>> /\ n.n = 1

====
